---- MODULE Spec2Model ----
(***************************************************************************)
(* Model of main.py: the /analyze handler (analyze_competitors), its       *)
(* helper scan_site and the rules that derive the recommendations.         *)
(*                                                                         *)
(* Python values are modelled as follows.                                  *)
(*   Optional[str]         a string, with None the distinguished string    *)
(*   Optional[Result]      a sequence of length 0 (None) or 1              *)
(*   a float quotient s/n  the pair [sum |-> s, n |-> n]                   *)
(*   an f-string message   a record [topic, variant, n] (n the number the  *)
(*                         message carries, 0 when it carries none)        *)
(***************************************************************************)
EXTENDS Integers, Sequences, FiniteSets, TLC

\* ------------------------------------------------------------- bounds
\* Longest competitor_urls list of a request handled step by step (Spec).
MaxUrls == 2
\* Longest list of competitor results handed to the rules (RecSpec).
MaxCompetitors == 4
\* Most occurrences of the main service phrase in one page.
MaxMentions == 5

\* ------------------------------------------------------------- values
None == "<None>"

Max(a, b) == IF a >= b THEN a ELSE b

Truthy(s) == s # None /\ s # ""

Urls == {"a", "b"}
OwnUrl == "me"
WebsiteUrls == {None, "", OwnUrl}
MainServices == {"", "  ", "Lawn Mowing "}

\* str.lower().strip() on the strings of the model
LowerStrip(s) ==
  CASE s = "Lawn Mowing " -> "lawn mowing"
    [] s = "  " -> ""
    [] OTHER -> s

\* str.strip() on the strings of the model
Strip(s) ==
  CASE s = " Acme Lawn " -> "Acme Lawn"
    [] s = " Best lawns " -> "Best lawns"
    [] s = " og text " -> "og text"
    [] OTHER -> s

Features == {"testimonials", "faq", "gallery", "cta"}

TestimonialKeywords ==
  {"testimonial", "testimonials", "what our customers say", "reviews", "review"}
GalleryKeywords == {"gallery", "our work", "portfolio", "before and after"}
FaqKeywords == {"faq", "frequently asked questions"}
CtaKeywords ==
  {"call now", "get a quote", "get a free quote", "free estimate", "book now",
   "schedule now", "request a quote", "request a call"}

\* ------------------------------------------------------------- pages
\* The lower-cased text of a page: the keyword terms it contains and the
\* number of occurrences of "lawn mowing" in it.
TextTerms == {"reviews", "faq", "portfolio", "book now"}

Text(terms, mentions) == [terms |-> terms, mentions |-> mentions]

\* <title>, <meta name=description>, <meta property=og:description>
Heads ==
  { [title |-> None, description |-> None, og_description |-> None],
    [title |-> " Acme Lawn ", description |-> " Best lawns ", og_description |-> " og text "],
    [title |-> "", description |-> "", og_description |-> " og text "] }

PlainHead == [title |-> None, description |-> None, og_description |-> None]

Doc(head, text) == [head |-> head, text |-> text]

\* What one client.get(url) followed by the parse can come to.
Ok(doc) == [kind |-> "ok", msg |-> None, doc |-> doc]
Failure(kind, msg) == [kind |-> kind, msg |-> msg, doc |-> Doc(PlainHead, Text({}, 0))]

Failures ==
  { Failure("fetch_error", ""), Failure("fetch_error", "ConnectError"),
    Failure("parse_error", "decode") }

\* Outcomes of the scans of Spec.
Outcomes ==
  Failures \cup
  { Ok(Doc(h, t)) : h \in Heads,
                    t \in {Text({}, 0), Text({"reviews", "faq"}, MaxMentions)} }

\* Outcomes of the scans behind the results handed to the rules in RecSpec.
RecTexts ==
  { Text(w, 0) : w \in {{}, TextTerms} \cup {{x} : x \in TextTerms} }
  \cup { Text({}, m) : m \in 1..MaxMentions }
  \cup { Text(TextTerms, MaxMentions) }

RecOutcomes ==
  { Failure("fetch_error", ""), Failure("fetch_error", "ConnectError") }
  \cup { Ok(Doc(PlainHead, t)) : t \in RecTexts }

\* ------------------------------------------------------------- scan_site
CompetitorResult(url, title, meta_description, has_testimonials, has_gallery, has_faq, has_clear_cta, service_mentions, error) ==
  [url |-> url, title |-> title, meta_description |-> meta_description,
   has_testimonials |-> has_testimonials, has_gallery |-> has_gallery,
   has_faq |-> has_faq, has_clear_cta |-> has_clear_cta,
   service_mentions |-> service_mentions, error |-> error]

\* CompetitorResult(url=url, error=...): every other field at its default
ErrorResult(url, error) ==
  CompetitorResult(url, None, None, FALSE, FALSE, FALSE, FALSE, 0, error)

Return(value) == [raised |-> FALSE, value |-> value]
Raise(url, msg) == [raised |-> TRUE, value |-> ErrorResult(url, msg)]

Title(head) == IF Truthy(head.title) THEN Strip(head.title) ELSE None

MetaDescription(head) ==
  IF Truthy(head.description) THEN Strip(head.description)
  ELSE IF Truthy(head.og_description) THEN Strip(head.og_description)
  ELSE None

has_any(text, keywords) == \E k \in keywords : k \in text.terms

\* text.count(phrase); Python counts len(text) + 1 occurrences of ""
Count(text, phrase) ==
  IF phrase = "" THEN Cardinality(text.terms) + text.mentions + 1
  ELSE text.mentions

ServiceMentions(text, main_service_phrase) ==
  IF main_service_phrase # "" THEN Count(text, main_service_phrase) ELSE 0

Parse(url, doc, main_service_phrase) ==
  CompetitorResult(url, Title(doc.head), MetaDescription(doc.head),
                   has_any(doc.text, TestimonialKeywords),
                   has_any(doc.text, GalleryKeywords),
                   has_any(doc.text, FaqKeywords),
                   has_any(doc.text, CtaKeywords),
                   ServiceMentions(doc.text, main_service_phrase),
                   None)

scan_site_ParseEscapes(url, outcome, main_service_phrase) ==
  CASE outcome.kind = "ok" -> Return(Parse(url, outcome.doc, main_service_phrase))
    [] outcome.kind = "fetch_error" -> Return(ErrorResult(url, outcome.msg))
    [] OTHER -> Raise(url, outcome.msg)

scan_site(url, outcome, main_service_phrase) ==
  IF outcome.kind = "ok"
  THEN Return(Parse(url, outcome.doc, main_service_phrase))
  ELSE Return(ErrorResult(url, outcome.msg))

\* ------------------------------------------------------------- the rules
Message(topic, variant, n) == [topic |-> topic, variant |-> variant, n |-> n]

\* "... less often than competitors. Aim for at least {n} mentions ..."
KeywordLess(n) == Message("keyword", "less", n)
\* "You're using ... as frequently as top competitors ..."
KeywordOnPar == Message("keyword", "par", 0)
\* "Use the phrase ... at least {n} times ..."
KeywordGeneric(n) == Message("keyword", "generic", n)
\* "... but your site does not / is missing one / doesn't. Add ..."
FeatureAdd(feature) == Message(feature, "add", 0)
\* "Most competitors ... Make sure ..."
FeatureSoft(feature) == Message(feature, "soft", 0)
\* "Make sure your homepage clearly states what you do, where you work ..."
Fallback == Message("fallback", "generic", 0)
\* "A simple one-page layout works great: ..."
Closing == Message("closing", "generic", 0)

valid_competitors_Truthiness(res) == SelectSeq(res, LAMBDA r : ~Truthy(r.error))

\* [r for r in results if r.error is None]
valid_competitors(res) == SelectSeq(res, LAMBDA r : r.error = None)

RECURSIVE SumMentions(_)
SumMentions(rs) ==
  IF rs = <<>> THEN 0 ELSE Head(rs).service_mentions + SumMentions(Tail(rs))

\* sum(...) / max(len(valid), 1), kept as the exact quotient
AvgMentions(valid) == [sum |-> SumMentions(valid), n |-> Max(Len(valid), 1)]

PyRound_HalfUp(avg) == (2 * avg.sum + avg.n) \div (2 * avg.n)

\* Python 3 round(x): the nearest integer, a tie going to the even one
PyRound(avg) ==
  LET q == avg.sum \div avg.n
      r == avg.sum % avg.n
  IN  IF 2 * r < avg.n THEN q
      ELSE IF 2 * r > avg.n THEN q + 1
      ELSE IF q % 2 = 0 THEN q ELSE q + 1

\* int(max(3, round(avg_mentions)))
MentionTarget(avg) == Max(3, PyRound(avg))

\* your_site_result and your_site_result.error is None
OwnScanned(own) == own # <<>> /\ own[1].error = None

HasFeature(r, feature) ==
  CASE feature = "testimonials" -> r.has_testimonials
    [] feature = "faq" -> r.has_faq
    [] feature = "gallery" -> r.has_gallery
    [] feature = "cta" -> r.has_clear_cta

KeywordRecs(valid, own) ==
  LET avg == AvgMentions(valid)
  IN  IF avg.sum > 0
      THEN IF OwnScanned(own)
           THEN IF own[1].service_mentions * avg.n < avg.sum
                THEN << KeywordLess(MentionTarget(avg)) >>
                ELSE << KeywordOnPar >>
           ELSE << KeywordGeneric(MentionTarget(avg)) >>
      ELSE << >>

FeatureCount(valid, feature) ==
  Cardinality({i \in 1..Len(valid) : HasFeature(valid[i], feature)})

half_or_more_NoMinimum(valid) == Len(valid) \div 2

half_or_more(valid) == Max(1, Len(valid) \div 2)

FeatureRecs(valid, own, feature) ==
  IF FeatureCount(valid, feature) >= half_or_more(valid)
  THEN IF OwnScanned(own) /\ ~HasFeature(own[1], feature)
       THEN << FeatureAdd(feature) >>
       ELSE << FeatureSoft(feature) >>
  ELSE << >>

FeatureOrder_GalleryFirst == << "testimonials", "gallery", "faq", "cta" >>

\* the order of the four feature blocks
FeatureOrder == << "testimonials", "faq", "gallery", "cta" >>

\* the body of "if valid_competitors:"
RuleRecs(valid, own) ==
  IF Len(valid) > 0
  THEN KeywordRecs(valid, own)
       \o FeatureRecs(valid, own, FeatureOrder[1])
       \o FeatureRecs(valid, own, FeatureOrder[2])
       \o FeatureRecs(valid, own, FeatureOrder[3])
       \o FeatureRecs(valid, own, FeatureOrder[4])
  ELSE << >>

WithFallback_Always(recs) == Append(recs, Fallback)

\* if not recommendations: recommendations.append(...)
WithFallback(recs) == IF recs = << >> THEN Append(recs, Fallback) ELSE recs

WithClosing_UnlessFallback(recs) ==
  IF recs = << Fallback >> THEN recs ELSE Append(recs, Closing)

\* recommendations.append(<closing suggestion>)
WithClosing(recs) == Append(recs, Closing)

Recommendations(res, own) ==
  LET valid == valid_competitors(res)
  IN  WithClosing(WithFallback(RuleRecs(valid, own)))

\* the local avg_mentions: unbound (<<>>) unless "if valid_competitors:" is taken
AvgMentionsLocal(res) ==
  LET valid == valid_competitors(res)
  IN  IF Len(valid) > 0 THEN << AvgMentions(valid) >> ELSE << >>

AnalyzeResponse(competitors, your_site, recs) ==
  [competitors |-> competitors, your_site |-> your_site, recommendations |-> recs]

\* ------------------------------------------------------------- the handler
VARIABLES
  payload,           \* the AnalyzeRequest: competitor_urls, website_url, main_service
  pc,                \* where analyze_competitors is
  results,           \* the local results
  your_site_result,  \* the local your_site_result
  avg_mentions,      \* the local avg_mentions
  recommendations,   \* the local recommendations
  response,          \* the AnalyzeResponse returned, once returned
  requests,          \* the urls client.get was called with, in call order
  outcomes,          \* what each of those calls came to, once it is over
  in_flight          \* the calls (indices of requests) awaited and not over

vars ==
  << payload, pc, results, your_site_result, avg_mentions, recommendations,
     response, requests, outcomes, in_flight >>

UrlLists(n) == UNION { [1..k -> Urls] : k \in 0..n }

Payloads ==
  [competitor_urls : UrlLists(MaxUrls), website_url : WebsiteUrls,
   main_service : MainServices]

main_service_phrase == LowerStrip(payload.main_service)

Init ==
  /\ payload \in Payloads
  /\ pc = "loop"
  /\ results = << >>
  /\ your_site_result = << >>
  /\ avg_mentions = << >>
  /\ recommendations = << >>
  /\ response = << >>
  /\ requests = << >>
  /\ outcomes = << >>
  /\ in_flight = {}

AppendResult_Prepend(rs, r) == << r >> \o rs

\* results.append(result)
AppendResult(rs, r) == Append(rs, r)

LoopDone_StopsAtFailure ==
  \/ Len(results) = Len(payload.competitor_urls)
  \/ (results # << >> /\ results[Len(results)].error # None)

\* "for url in payload.competitor_urls" has run out of urls
LoopDone == Len(results) = Len(payload.competitor_urls)

Suspended_NotAwaited(at) == "loop"

\* "await scan_site(...)": the handler stays at `at` until the scan is over
Suspended(at) == at

\* the coroutine scan_site(...) runs up to its "await client.get(url)"
Get(url) ==
  /\ requests' = Append(requests, url)
  /\ in_flight' = in_flight \cup {Len(requests) + 1}

\* for url in ...: result = await scan_site(client, url, main_service_phrase)
StartCompetitorScan ==
  /\ pc = "loop"
  /\ ~LoopDone
  /\ Get(payload.competitor_urls[Len(results) + 1])
  /\ pc' = Suspended("await_competitor")
  /\ UNCHANGED << payload, results, your_site_result, avg_mentions,
                  recommendations, response, outcomes >>

\* the awaited scan_site is over; results.append(result)
FinishCompetitorScan ==
  /\ pc = "await_competitor"
  /\ \E outcome \in Outcomes :
       LET k == Len(requests)
           r == scan_site(requests[k], outcome, main_service_phrase)
       IN  /\ outcomes' = Append(outcomes, outcome)
           /\ in_flight' = in_flight \ {k}
           /\ IF r.raised
              THEN pc' = "failed" /\ UNCHANGED results
              ELSE pc' = "loop" /\ results' = AppendResult(results, r.value)
  /\ UNCHANGED << payload, your_site_result, avg_mentions, recommendations,
                  response, requests >>

\* if payload.website_url: your_site_result = await scan_site(...)
StartOwnScan ==
  /\ pc = "loop"
  /\ LoopDone
  /\ Truthy(payload.website_url)
  /\ Get(payload.website_url)
  /\ pc' = Suspended("await_own")
  /\ UNCHANGED << payload, results, your_site_result, avg_mentions,
                  recommendations, response, outcomes >>

\* "if payload.website_url:" is false
SkipOwnScan ==
  /\ pc = "loop"
  /\ LoopDone
  /\ ~Truthy(payload.website_url)
  /\ pc' = "build"
  /\ UNCHANGED << payload, results, your_site_result, avg_mentions,
                  recommendations, response, requests, outcomes, in_flight >>

FinishOwnScan ==
  /\ pc = "await_own"
  /\ \E outcome \in Outcomes :
       LET k == Len(requests)
           r == scan_site(requests[k], outcome, main_service_phrase)
       IN  /\ outcomes' = Append(outcomes, outcome)
           /\ in_flight' = in_flight \ {k}
           /\ IF r.raised
              THEN pc' = "failed" /\ UNCHANGED your_site_result
              ELSE pc' = "build" /\ your_site_result' = << r.value >>
  /\ UNCHANGED << payload, results, avg_mentions, recommendations, response,
                  requests >>

\* everything after the "async with" block, up to the return
BuildRecommendations ==
  /\ pc = "build"
  /\ avg_mentions' = AvgMentionsLocal(results)
  /\ recommendations' = Recommendations(results, your_site_result)
  /\ response' =
       << AnalyzeResponse(results, your_site_result,
                          Recommendations(results, your_site_result)) >>
  /\ pc' = "done"
  /\ UNCHANGED << payload, results, your_site_result, requests, outcomes,
                  in_flight >>

Next ==
  \/ StartCompetitorScan
  \/ FinishCompetitorScan
  \/ StartOwnScan
  \/ SkipOwnScan
  \/ FinishOwnScan
  \/ BuildRecommendations

Spec == Init /\ [][Next]_vars

\* The event loop resumes a coroutine whose await is over, and the client's
\* timeout ends every client.get.
FairSpec == Spec /\ WF_vars(Next)

\* ------------------------------------------------------------- the rules alone
\* The handler at the start of the rules, after scans that came to the given
\* outcomes: the rules are a function of results and your_site_result.

RECURSIVE SeqOf(_)
SeqOf(S) ==
  IF S = {} THEN << >>
  ELSE LET x == CHOOSE y \in S : TRUE IN << x >> \o SeqOf(S \ {x})

RecOutcomeSeq == SeqOf(RecOutcomes)

\* Lists of at most n outcomes, one per multiset: sum() and the counts of the
\* rules read the results in no particular order.
RecOutcomeLists(n) ==
  UNION { { [i \in 1..k |-> RecOutcomeSeq[ix[i]]] :
              ix \in { f \in [1..k -> 1..Len(RecOutcomeSeq)] :
                         \A i \in 1..(k - 1) : f[i] <= f[i + 1] } } :
          k \in 0..n }

RecInit ==
  \E outs \in RecOutcomeLists(MaxCompetitors) :
    \E own \in {<< >>} \cup { << o >> : o \in RecOutcomes } :
      /\ payload = [competitor_urls |-> [i \in 1..Len(outs) |-> "a"],
                    website_url |-> IF own = << >> THEN None ELSE OwnUrl,
                    main_service |-> "Lawn Mowing "]
      /\ pc = "build"
      /\ results =
           [i \in 1..Len(outs) |-> scan_site("a", outs[i], "lawn mowing").value]
      /\ your_site_result =
           [i \in 1..Len(own) |-> scan_site(OwnUrl, own[i], "lawn mowing").value]
      /\ avg_mentions = << >>
      /\ recommendations = << >>
      /\ response = << >>
      /\ requests = [i \in 1..(Len(outs) + Len(own)) |->
                       IF i <= Len(outs) THEN "a" ELSE OwnUrl]
      /\ outcomes = outs \o own
      /\ in_flight = {}

RecSpec == RecInit /\ [][BuildRecommendations]_vars

\* ------------------------------------------------------------- properties
\* What the properties below say is stated on the request, the outcomes of
\* the scans and the response, without the operators of the rules.

ExpectedRequests ==
  payload.competitor_urls
  \o (IF payload.website_url \notin {None, ""} THEN << payload.website_url >> ELSE << >>)

IsPrefix(s, t) == Len(s) <= Len(t) /\ \A i \in 1..Len(s) : s[i] = t[i]

Returned == response # << >>

\* the indices of the valid competitors
ValidIdx == {i \in 1..Len(results) : results[i].error = None}

ValidCount == Cardinality(ValidIdx)

RECURSIVE MentionsOver(_)
MentionsOver(I) ==
  IF I = {} THEN 0
  ELSE LET i == CHOOSE j \in I : TRUE
       IN  results[i].service_mentions + MentionsOver(I \ {i})

\* the sum of service_mentions over the valid competitors
TotalMentions == MentionsOver(ValidIdx)

OwnValid == your_site_result # << >> /\ your_site_result[1].error = None

Flag(r, feature) ==
  \/ (feature = "testimonials" /\ r.has_testimonials)
  \/ (feature = "faq" /\ r.has_faq)
  \/ (feature = "gallery" /\ r.has_gallery)
  \/ (feature = "cta" /\ r.has_clear_cta)

Prevalence(feature) == Cardinality({i \in ValidIdx : Flag(results[i], feature)})

HalfOrMore == IF ValidCount \div 2 >= 1 THEN ValidCount \div 2 ELSE 1

\* the positions of the returned recommendations about a topic
About(topic) ==
  {i \in 1..Len(response[1].recommendations) :
     response[1].recommendations[i].topic = topic}

TheOne(topic) ==
  response[1].recommendations[CHOOSE i \in About(topic) : TRUE]

\* n = max(3, round(s / c)), round taking a tie to the even integer
IsMentionTarget(n, s, c) ==
  \E r \in 0..s :
    /\ 2 * r * c - 2 * s <= c
    /\ 2 * s - 2 * r * c <= c
    /\ (2 * r * c - 2 * s = c \/ 2 * s - 2 * r * c = c) => r % 2 = 0
    /\ n = IF r > 3 THEN r ELSE 3

\* C1: the returned competitors list is as long as competitor_urls and its
\* i-th entry carries the i-th url, whichever scans fail (and the results so
\* far always follow the urls scanned so far).
C1_CompetitorsFollowInputOrder ==
  /\ IsPrefix([i \in 1..Len(results) |-> results[i].url], payload.competitor_urls)
  /\ Returned =>
       /\ Len(response[1].competitors) = Len(payload.competitor_urls)
       /\ \A i \in 1..Len(payload.competitor_urls) :
            response[1].competitors[i].url = payload.competitor_urls[i]

C1_Witness ==
  /\ Returned
  /\ Len(payload.competitor_urls) = 2
  /\ payload.competitor_urls[1] # payload.competitor_urls[2]
  /\ outcomes[1].kind = "fetch_error"
  /\ outcomes[2].kind = "ok"
  /\ response[1].competitors[2].url = payload.competitor_urls[2]

\* the result of the k-th scan that is over
ResultOf(k) == IF k <= Len(results) THEN results[k] ELSE your_site_result[1]

\* C2: scan_site never raises; a scan whose fetch or parse fails gives a
\* result with the url, error set and every other field at its default; a
\* scan that succeeds gives a result with error null.
C2_ScanAlwaysReturns ==
  /\ pc # "failed"
  /\ Len(outcomes) = Len(results) + Len(your_site_result)
  /\ \A k \in 1..Len(outcomes) :
       LET r == ResultOf(k)
       IN  /\ r.url = requests[k]
           /\ outcomes[k].kind = "ok" => r.error = None
           /\ outcomes[k].kind # "ok" =>
                /\ r.error # None
                /\ r.title = None
                /\ r.meta_description = None
                /\ ~r.has_testimonials /\ ~r.has_gallery
                /\ ~r.has_faq /\ ~r.has_clear_cta
                /\ r.service_mentions = 0

C2_Witness ==
  /\ Returned
  /\ Len(results) = 2
  /\ outcomes[1].kind = "parse_error"
  /\ results[1].error = "decode"
  /\ outcomes[2].kind = "ok"
  /\ results[2].has_testimonials
  /\ results[2].service_mentions = MaxMentions
  /\ your_site_result # << >>
  /\ outcomes[3].kind = "fetch_error"
  /\ your_site_result[1].error = ""

\* the number of scans of the invocation
TotalScans == Len(ExpectedRequests)

Scanning == pc \in {"loop", "await_competitor", "await_own"}

C3_WitnessRules ==
  pc = "build" /\ TotalScans = 3 /\ Len(outcomes) = 3 /\ in_flight = {}

\* C4: every competitor url, and the own url when there is one, is fetched
\* exactly once, in order, whatever the other scans come to: never a second
\* request for an entry, and at the return one request per entry; the
\* response carries every failure in the result of its url.
C4_OnceEach ==
  /\ IsPrefix(requests, ExpectedRequests)
  /\ Returned =>
       /\ requests = ExpectedRequests
       /\ Len(response[1].competitors) = Len(payload.competitor_urls)
       /\ \A k \in 1..Len(payload.competitor_urls) :
            outcomes[k].kind # "ok" =>
              /\ response[1].competitors[k].url = requests[k]
              /\ response[1].competitors[k].error = outcomes[k].msg
       /\ Len(requests) > Len(payload.competitor_urls) =>
            /\ response[1].your_site # << >>
            /\ outcomes[Len(requests)].kind # "ok" =>
                 response[1].your_site[1].error = outcomes[Len(requests)].msg

\* C4: ... and the request completes with a response.
C4_FetchedOnceAndCompletes == [] C4_OnceEach /\ <> Returned

C4_Witness ==
  /\ Returned
  /\ Len(payload.competitor_urls) = 2
  /\ Len(requests) = 3
  /\ outcomes[1].kind = "fetch_error"
  /\ outcomes[2].kind = "ok"
  /\ outcomes[3].kind = "ok"
  /\ response[1].competitors[1].error = "ConnectError"
  /\ response[1].competitors[2].error = None

Recs == response[1].recommendations

FallbackText == [topic |-> "fallback", variant |-> "generic", n |-> 0]
ClosingText == [topic |-> "closing", variant |-> "generic", n |-> 0]

\* C5: with no valid competitor (no competitor, or every competitor scan
\* failed) the response carries exactly the generic fallback followed by the
\* closing suggestion, whatever the own site's result, and no average is
\* computed; an average that is computed never divides by zero.
C5_NoValidCompetitor ==
  /\ avg_mentions # << >> => (ValidCount >= 1 /\ avg_mentions[1].n >= 1)
  /\ (Returned /\ ValidCount = 0) =>
       /\ Recs = << FallbackText, ClosingText >>
       /\ recommendations = Recs
       /\ avg_mentions = << >>

C5_Witness ==
  /\ Returned
  /\ Len(results) = 3
  /\ ValidCount = 0
  /\ results[1].error = ""
  /\ OwnValid
  /\ your_site_result[1].has_faq
  /\ your_site_result[1].service_mentions > 0
  /\ Len(Recs) = 2

C5_WitnessEmpty ==
  Returned /\ Len(payload.competitor_urls) = 0 /\ response[1].competitors = << >>
  /\ Len(Recs) = 2

KeywordDue == ValidCount >= 1 /\ TotalMentions > 0

\* C6: a keyword-usage recommendation is returned iff there is a valid
\* competitor and the mean of service_mentions over the valid competitors is
\* > 0, and then exactly one: with the own site scanned successfully, "less
\* often, aim for at least N" when its service_mentions is below the mean and
\* "as frequently" otherwise; with the own site absent or failed, "use the
\* phrase at least N times"; N = max(3, round(mean)), round being Python's
\* (the nearest integer, a tie going to the even one).
C6_KeywordRecommendation ==
  Returned =>
    /\ Cardinality(About("keyword")) = IF KeywordDue THEN 1 ELSE 0
    /\ KeywordDue =>
         LET m == TheOne("keyword")
         IN  IF OwnValid
             THEN IF your_site_result[1].service_mentions * ValidCount < TotalMentions
                  THEN /\ m.variant = "less"
                       /\ IsMentionTarget(m.n, TotalMentions, ValidCount)
                  ELSE m.variant = "par"
             ELSE /\ m.variant = "generic"
                  /\ IsMentionTarget(m.n, TotalMentions, ValidCount)

\* the mean is 4.5 and N is 4; the own site is below the mean
C6_Witness ==
  /\ Returned
  /\ ValidCount = 2
  /\ TotalMentions = 9
  /\ OwnValid
  /\ your_site_result[1].service_mentions = 1
  /\ About("keyword") = {1}
  /\ Recs[1] = [topic |-> "keyword", variant |-> "less", n |-> 4]

C6_WitnessOnPar ==
  /\ Returned /\ KeywordDue /\ OwnValid
  /\ your_site_result[1].service_mentions * ValidCount = TotalMentions
  /\ Recs[1].variant = "par"

C6_WitnessGeneric ==
  /\ Returned /\ ValidCount = 3 /\ TotalMentions = 14
  /\ your_site_result # << >> /\ ~OwnValid
  /\ Recs[1] = [topic |-> "keyword", variant |-> "generic", n |-> 5]

C6_WitnessNone ==
  Returned /\ ValidCount = 2 /\ TotalMentions = 0 /\ About("keyword") = {}

\* C7: for each of the four features, with halfOrMore = max(1, validCount
\* div 2) and the count taken over the valid competitors, exactly one
\* recommendation about the feature is returned iff count >= halfOrMore and
\* none otherwise; it is the "add it" variant iff the own site was scanned
\* successfully and lacks the feature, and the softer variant otherwise.
C7_FeatureRecommendations ==
  Returned =>
    \A f \in Features :
      /\ Cardinality(About(f)) = IF Prevalence(f) >= HalfOrMore THEN 1 ELSE 0
      /\ Prevalence(f) >= HalfOrMore =>
           /\ TheOne(f).variant \in {"add", "soft"}
           /\ TheOne(f).variant = "add" <=>
                (OwnValid /\ ~Flag(your_site_result[1], f))

\* one of four valid competitors has a gallery: below halfOrMore = 2
C7_Witness ==
  /\ Returned
  /\ ValidCount = 4
  /\ Prevalence("gallery") = 1
  /\ About("gallery") = {}
  /\ Prevalence("testimonials") = 2
  /\ OwnValid
  /\ ~your_site_result[1].has_testimonials
  /\ TheOne("testimonials").variant = "add"

C7_WitnessSoft ==
  /\ Returned /\ Prevalence("faq") >= HalfOrMore /\ OwnValid
  /\ your_site_result[1].has_faq /\ TheOne("faq").variant = "soft"
  /\ Prevalence("cta") >= HalfOrMore /\ ~your_site_result[1].has_clear_cta
  /\ TheOne("cta").variant = "add"

FeatureOrKeyword == About("keyword") \cup UNION {About(f) : f \in Features}

\* C8: the generic fallback is returned iff neither a keyword-usage nor a
\* feature recommendation is (every prevalence count below halfOrMore, and
\* the mean of the mentions 0 or not computed), and then exactly once.
C8_FallbackIffNothingElse ==
  Returned =>
    /\ Cardinality(About("fallback")) = IF FeatureOrKeyword = {} THEN 1 ELSE 0
    /\ About("fallback") # {} <=>
         /\ \A f \in Features : Prevalence(f) < HalfOrMore
         /\ (ValidCount = 0 \/ TotalMentions = 0)

\* valid competitors, none with a feature or a mention
C8_Witness ==
  /\ Returned
  /\ ValidCount = 2
  /\ TotalMentions = 0
  /\ \A f \in Features : Prevalence(f) = 0
  /\ Cardinality(About("fallback")) = 1

C8_WitnessAbsent ==
  Returned /\ ValidCount >= 1 /\ FeatureOrKeyword # {} /\ About("fallback") = {}

\* C9: every response ends with the closing suggestion, which is there
\* exactly once; the recommendations number between 2 and 6.
C9_ClosingLast ==
  Returned =>
    /\ Len(Recs) >= 2
    /\ Len(Recs) <= 6
    /\ About("closing") = {Len(Recs)}

C9_Witness ==
  Returned /\ Len(Recs) = 6 /\ Recs[6] = ClosingText /\ Recs[1].topic = "keyword"

C9_WitnessShortest ==
  Returned /\ Len(Recs) = 2 /\ Recs[2] = ClosingText /\ ValidCount >= 1

Rank(topic) ==
  CASE topic = "keyword" -> 1
    [] topic = "testimonials" -> 2
    [] topic = "faq" -> 3
    [] topic = "gallery" -> 4
    [] topic = "cta" -> 5
    [] topic = "fallback" -> 6
    [] topic = "closing" -> 7

\* C10: the recommendations follow the order keyword usage, testimonials,
\* FAQ, gallery, CTA, generic fallback, closing suggestion, each kind at most
\* once.
C10_FixedOrder ==
  Returned =>
    \A i, j \in 1..Len(Recs) : i < j => Rank(Recs[i].topic) < Rank(Recs[j].topic)

C10_Witness ==
  /\ Returned
  /\ Len(Recs) = 4
  /\ Recs[1].topic = "faq"
  /\ Recs[2].topic = "gallery"
  /\ Recs[3].topic = "cta"

====
